---- MODULE Spec2Model ----
(***************************************************************************)
(* Model of dynamiq's agent core: dynamiq/nodes/agents/base.py (Agent and  *)
(* AgentManager), dynamiq/nodes/agents/exceptions.py and the completion    *)
(* handling of dynamiq/nodes/llms/base.py.                                 *)
(*                                                                         *)
(* Text is modelled as a sequence of tokens.  A token is a Python          *)
(* substring that the code never splits: "SP" is one blank, "NL" one line  *)
(* break, "Action:" / "Action Input:" the literal markers of the action    *)
(* grammar, "{" "}" "[" "]" "," the JSON punctuation, "k:" a quoted JSON   *)
(* key with its colon, "1" "s" "sF" JSON scalars ("sF" is a string        *)
(* literal that contains the three-backtick fence marker), "FENCEjson"     *)
(* and "FENCE" the fence markers (three backticks with and without the     *)
(* json label), and every other token a plain word.                        *)
(***************************************************************************)
EXTENDS Integers, Sequences, FiniteSets, TLC

\* ------------------------------------------------------------------ bounds

\* deepest nesting of the JSON objects offered to _parse_action
MaxDepth == 2

\* ------------------------------------------------------------ text helpers

IsSpace(t) == t \in {"SP", "NL"}

NotSpace(t) == ~IsSpace(t)

Contains(s, t) == \E i \in 1..Len(s) : s[i] = t

\* str.strip(): drop the leading and the trailing white space
Strip(s) ==
    LET keep == {i \in 1..Len(s) : NotSpace(s[i])}
    IN  IF keep = {} THEN <<>>
        ELSE LET lo == CHOOSE i \in keep : \A j \in keep : i <= j
                 hi == CHOOSE i \in keep : \A j \in keep : j <= i
             IN  SubSeq(s, lo, hi)

\* ------------------------------------------------------- results of a call

NoRet == [kind |-> "none", value |-> <<>>, type |-> "", recoverable |-> FALSE,
          msg |-> "", detail |-> <<>>]

Return(v) == [kind |-> "return", value |-> v, type |-> "",
              recoverable |-> FALSE, msg |-> "", detail |-> <<>>]

\* An exception object: its class, its recoverable attribute (FALSE for a
\* class that is no RecoverableAgentException and has no such attribute),
\* the fixed text of its message and the values formatted into the message.
RaiseWith(type, recoverable, msg, detail) ==
    [kind |-> "raise", value |-> <<>>, type |-> type,
     recoverable |-> recoverable, msg |-> msg, detail |-> detail]

Raise(type, recoverable, msg) == RaiseWith(type, recoverable, msg, <<>>)

\* RecoverableAgentException.__init__: recoverable defaults to True
RecoverableAgentException(type, msg, detail) ==
    RaiseWith(type, TRUE, msg, detail)

\* ------------------------------------------------------------- json.loads

JsonAtoms == {"1", "s", "sF"}

JsonKeys == {"k:"}

RECURSIVE ParseVal(_, _), ParseMembers(_, _), ParseElems(_, _)

\* The index after the JSON value that starts at t[i], or 0 when there is none.
ParseVal(t, i) ==
    IF i > Len(t) THEN 0
    ELSE IF t[i] \in JsonAtoms THEN i + 1
    ELSE IF t[i] = "{"
         THEN IF i + 1 <= Len(t) /\ t[i + 1] = "}" THEN i + 2
              ELSE ParseMembers(t, i + 1)
    ELSE IF t[i] = "["
         THEN IF i + 1 <= Len(t) /\ t[i + 1] = "]" THEN i + 2
              ELSE ParseElems(t, i + 1)
    ELSE 0

ParseMembers(t, i) ==
    IF i > Len(t) \/ t[i] \notin JsonKeys THEN 0
    ELSE LET n == ParseVal(t, i + 1)
         IN  IF n = 0 \/ n > Len(t) THEN 0
             ELSE IF t[n] = "}" THEN n + 1
             ELSE IF t[n] = "," THEN ParseMembers(t, n + 1)
             ELSE 0

ParseElems(t, i) ==
    LET n == ParseVal(t, i)
    IN  IF n = 0 \/ n > Len(t) THEN 0
        ELSE IF t[n] = "]" THEN n + 1
        ELSE IF t[n] = "," THEN ParseElems(t, n + 1)
        ELSE 0

\* json.loads: the whole text must be one JSON value; white space between
\* its tokens is insignificant.  The decoded structure is written as the
\* tokens of the value without that white space.
JsonLoads(s) ==
    LET t == SelectSeq(s, NotSpace)
    IN  IF ParseVal(t, 1) = Len(t) + 1
        THEN [value |-> t, ok |-> TRUE]
        ELSE [value |-> <<>>, ok |-> FALSE]

\* ---------------------------------------------------------- _parse_action

\* the pattern with a group 2 that stops at the first closing brace
ReSearchActionFirstBrace(output) ==
    LET n == Len(output)
        inputAt(j) == j + 1 <= n /\ output[j] = "NL" /\ output[j + 1] = "Action Input:"
        starts == {i \in 1..n : output[i] = "Action:" /\ \E j \in (i + 1)..n : inputAt(j)}
    IN  IF starts = {} THEN [matched |-> FALSE, g1 |-> <<>>, g2 |-> <<>>]
        ELSE
        LET i == CHOOSE x \in starts : \A y \in starts : x <= y
            js == {j \in (i + 1)..n : inputAt(j)}
            j == CHOOSE x \in js : \A y \in js : x <= y
            closes == {e \in (j + 2)..n : output[e] = "}"}
            g2 == IF closes # {}
                  THEN SubSeq(output, j + 2, CHOOSE x \in closes : \A y \in closes : x <= y)
                  ELSE <<>>
        IN  [matched |-> TRUE, g1 |-> SubSeq(output, i + 1, j - 1), g2 |-> g2]

\* re.search(r"Action:\s*(.*?)\nAction Input:\s*(({\n)?.*?)(?:[^}]*$)",
\*           output, re.DOTALL)
\* Group 1 runs lazily from the leftmost "Action:" that is followed by a
\* "\nAction Input:" up to the first such marker.  After the marker \s*
\* takes all white space; group 2 is the shortest text whose remainder has
\* no "}": it ends with the last "}" of the output, and when there is none
\* it is "{\n" if the text starts with that and empty otherwise.
ReSearchAction(output) ==
    LET n == Len(output)
        inputAt(j) == j + 1 <= n /\ output[j] = "NL" /\ output[j + 1] = "Action Input:"
        starts == {i \in 1..n : output[i] = "Action:" /\ \E j \in (i + 1)..n : inputAt(j)}
    IN  IF starts = {} THEN [matched |-> FALSE, g1 |-> <<>>, g2 |-> <<>>]
        ELSE
        LET i == CHOOSE x \in starts : \A y \in starts : x <= y
            js == {j \in (i + 1)..n : inputAt(j)}
            j == CHOOSE x \in js : \A y \in js : x <= y
            nonsp == {k \in (j + 2)..n : NotSpace(output[k])}
            k == IF nonsp = {} THEN n + 1
                 ELSE CHOOSE x \in nonsp : \A y \in nonsp : x <= y
            closes == {e \in k..n : output[e] = "}"}
            g2 == IF closes # {}
                  THEN SubSeq(output, k, CHOOSE x \in closes : \A y \in closes : y <= x)
                  ELSE IF k + 1 <= n /\ output[k] = "{" /\ output[k + 1] = "NL"
                       THEN <<"{", "NL">>
                       ELSE <<>>
        IN  [matched |-> TRUE, g1 |-> SubSeq(output, i + 1, j - 1), g2 |-> g2]

\* action_input.replace(FENCEjson, "").replace(FENCE, ""): both markers go,
\* also the three backticks inside a string literal.
RemoveFences(s) ==
    LET kept == SelectSeq(s, LAMBDA t : t \notin {"FENCEjson", "FENCE"})
    IN  [i \in 1..Len(kept) |-> IF kept[i] = "sF" THEN "s" ELSE kept[i]]

ParseGuidance == "Error: Could not parse action and action input. Please rewrite in the appropriate Action/Action Input format with action input as a valid dictionary Make sure all quotes are present."

\* The try block of _parse_action: what it returns or raises.
ParseActionTry(output) ==
    LET m == ReSearchAction(output)
    IN  IF m.matched
        THEN LET action == Strip(m.g1)
                 raw == Strip(m.g2)
                 action_input == IF Contains(raw, "FENCEjson")
                                 THEN Strip(RemoveFences(raw))
                                 ELSE raw
                 decoded == JsonLoads(action_input)
             IN  IF decoded.ok
                 THEN Return(<<action, decoded.value>>)
                 ELSE Raise("JSONDecodeError", FALSE, "")
        ELSE RecoverableAgentException("ActionParsingException", "", <<>>)

\* an except clause that lets the error of the try block through
ParseActionReraise(r) == r

\* The except clause of _parse_action: every exception of the try block is
\* replaced by an ActionParsingException that carries the guidance.
ParseActionExcept(r) ==
    IF r.kind = "raise"
    THEN RaiseWith("ActionParsingException", TRUE, ParseGuidance, <<>>)
    ELSE r

ParseAction(output) == ParseActionExcept(ParseActionTry(output))

\* -------------------------------------------------------- generate_prompt

Min(S) == CHOOSE x \in S : \A y \in S : x <= y

RECURSIVE SplitNL(_)
\* str.split("\n")
SplitNL(s) ==
    LET nl == {i \in 1..Len(s) : s[i] = "NL"}
    IN  IF nl = {} THEN <<s>>
        ELSE <<SubSeq(s, 1, Min(nl) - 1)>> \o SplitNL(SubSeq(s, Min(nl) + 1, Len(s)))

RECURSIVE JoinWith(_, _)
\* sep.join(parts)
JoinWith(parts, sep) ==
    IF Len(parts) = 0 THEN <<>>
    ELSE IF Len(parts) = 1 THEN parts[1]
    ELSE parts[1] \o <<sep>> \o JoinWith(Tail(parts), sep)

IsBlank(line) == \A i \in 1..Len(line) : IsSpace(line[i])

\* the number of blanks a line starts with
Indent(line) ==
    LET words == {i \in 1..Len(line) : line[i] # "SP"}
    IN  IF words = {} THEN Len(line) ELSE Min(words) - 1

\* textwrap.dedent: the margin common to the lines that are not blank is
\* removed from them, and a blank line becomes empty.
Dedent(s) ==
    LET lines == SplitNL(s)
        full == {i \in 1..Len(lines) : ~IsBlank(lines[i])}
        margin == IF full = {} THEN 0 ELSE Min({Indent(lines[i]) : i \in full})
        cut == [i \in 1..Len(lines) |->
                   IF i \in full
                   THEN SubSeq(lines[i], margin + 1, Len(lines[i]))
                   ELSE <<>>]
    IN  JoinWith(cut, "NL")

\* lines 292-296: strip every line and drop the lines that are empty then
StripLines(s) ==
    LET lines == SplitNL(s)
        stripped == [i \in 1..Len(lines) |-> Strip(lines[i])]
    IN  JoinWith(SelectSeq(stripped, LAMBDA l : l # <<>>), "NL")

RECURSIVE Squeeze(_)
\* a run of blanks becomes one blank
Squeeze(s) ==
    IF Len(s) <= 1 THEN s
    ELSE IF s[1] = "SP" /\ s[2] = "SP" THEN Squeeze(Tail(s))
    ELSE <<s[1]>> \o Squeeze(Tail(s))

\* " ".join(line.split()): the words of a line, one blank between them
CollapseLine(line) == Squeeze(Strip(line))

\* line 298
CollapseSpaces(s) ==
    LET lines == SplitNL(s)
    IN  JoinWith([i \in 1..Len(lines) |-> CollapseLine(lines[i])], "NL")

\* lines 290-298
NormalizePrompt(s) == CollapseSpaces(StripLines(Dedent(s)))

\* the replacement fields a template can hold, and the variable each names
PlaceholderVar ==
    [t \in {"{input}", "{task}", "{tool_description}"} |->
        CASE t = "{input}" -> "input"
          [] t = "{task}" -> "task"
          [] t = "{tool_description}" -> "tool_description"]

IsPlaceholder(t) == t \in DOMAIN PlaceholderVar

\* content.format(**temp_variables): KeyError when a field names no variable
FormatOk(content, variables) ==
    \A i \in 1..Len(content) :
        IsPlaceholder(content[i]) => PlaceholderVar[content[i]] \in DOMAIN variables

RECURSIVE Format(_, _)
Format(content, variables) ==
    IF content = <<>> THEN <<>>
    ELSE (IF IsPlaceholder(Head(content))
          THEN variables[PlaceholderVar[Head(content)]]
          ELSE <<Head(content)>>) \o Format(Tail(content), variables)

\* block.upper() followed by the colon of the header line
Upper ==
    [n \in {"introduction", "role", "goal", "date", "tools", "instructions",
            "output_format", "request", "context", "plan", "assign", "final"} |->
        CASE n = "introduction" -> "INTRODUCTION:"
          [] n = "role" -> "ROLE:"
          [] n = "goal" -> "GOAL:"
          [] n = "date" -> "DATE:"
          [] n = "tools" -> "TOOLS:"
          [] n = "instructions" -> "INSTRUCTIONS:"
          [] n = "output_format" -> "OUTPUT_FORMAT:"
          [] n = "request" -> "REQUEST:"
          [] n = "context" -> "CONTEXT:"
          [] n = "plan" -> "PLAN:"
          [] n = "assign" -> "ASSIGN:"
          [] n = "final" -> "FINAL:"]

\* dict.update / dict | dict: the right operand wins on a common key
DictUpdate(d, e) ==
    [k \in DOMAIN d \cup DOMAIN e |-> IF k \in DOMAIN e THEN e[k] ELSE d[k]]

\* block_names = None
AllBlocks == [given |-> FALSE, names |-> {}]

\* block_names = [...]
OnlyBlocks(names) == [given |-> TRUE, names |-> names]

\* line 285 and line 286: the blocks of the loop whose body runs
Selected(blocks, block_names) ==
    SelectSeq(blocks, LAMBDA b :
        /\ (~block_names.given \/ b.name \in block_names.names)
        /\ b.content # <<>>)

RECURSIVE Assemble(_, _)
\* lines 283-288: the text of the selected blocks, headers included
Assemble(blocks, variables) ==
    IF blocks = <<>> THEN <<>>
    ELSE <<Upper[Head(blocks).name], "NL">>
            \o Format(Head(blocks).content, variables)
            \o <<"NL", "NL">>
            \o Assemble(Tail(blocks), variables)

\* a render that takes a variable that is not there for the empty text
GeneratePromptLenient(blocks, variables, block_names, kwargs) ==
    LET blank == [k \in {"input", "task", "tool_description"} |-> <<>>]
        temp_variables == DictUpdate(blank, DictUpdate(variables, kwargs))
    IN  Return(NormalizePrompt(Assemble(Selected(blocks, block_names), temp_variables)))

\* generate_prompt(block_names, **kwargs) on the blocks and the stored
\* variables of the agent: the prompt, or the KeyError of the first failing
\* format call.
GeneratePrompt(blocks, variables, block_names, kwargs) ==
    LET temp_variables == DictUpdate(variables, kwargs)
        sel == Selected(blocks, block_names)
    IN  IF \A i \in 1..Len(sel) : FormatOk(sel[i].content, temp_variables)
        THEN Return(NormalizePrompt(Assemble(sel, temp_variables)))
        ELSE Raise("KeyError", FALSE, "")

\* ------------------------------------------------------------ agent state

VARIABLES
    isManager,          \* the instance is an AgentManager (else a plain Agent)
    tools,              \* Agent.tools, the configured tool list
    prompt_blocks,      \* Agent._prompt_blocks, in insertion order
    prompt_variables,   \* Agent._prompt_variables
    intermediate_steps, \* Agent._intermediate_steps
    run_depends,        \* Agent._run_depends, the dependency chain
    actions,            \* AgentManager._actions: name -> callable
    pc,                 \* position of the running execute, "idle" when none
    input_data,         \* argument of the running execute
    prompt,             \* formatted_prompt of the running execute
    llm_log,            \* the model calls of the last execute, in order
    llm_out,            \* what the model collaborator answered last
    outcome,            \* what the last execute returned or raised
    dirty,              \* the last reset found a dependency chain to clear
    vars_before,        \* _prompt_variables when the last execute was called
    execs,              \* number of execute calls so far
    ops,                \* number of configuration calls so far
    parse_text,         \* argument of _parse_action
    parse_ret,          \* what _parse_action returned or raised
    tool_call,          \* the last _get_tool / _run_tool call
    tool_ret,           \* what that call returned or raised
    added,              \* the add_action calls so far, oldest first
    answer_ret,         \* what _extract_final_answer returned or raised
    gen_call,           \* the last direct generate_prompt call
    gen_ret,            \* what that call returned or raised
    heap,               \* the dict and list objects, by address
    inst,               \* per instance, the address each attribute is bound to
    results,            \* the execution results returned so far
    hlog,               \* the instance each call so far was made on
    supplied,           \* the run_depends the caller gave the last execute
    stream              \* the LLM node handling one completion response

vars == <<isManager, tools, prompt_blocks, prompt_variables, intermediate_steps,
          run_depends, actions, pc, input_data, prompt, llm_log, llm_out,
          outcome, dirty, vars_before, execs, ops, parse_text, parse_ret,
          tool_call, tool_ret, added, answer_ret, gen_call, gen_ret, heap, inst,
          results, hlog, supplied, stream>>

\* number of execute calls in a behaviour
MaxExec == 2

\* number of add_block / set_prompt_variable / add_action calls in a behaviour
MaxOps == 2

EmptyDict == [k \in {} |-> <<>>]

Dict1(k, v) == [x \in {k} |-> v]

\* ---- the configurations and the inputs the model draws from

SearchTool == [name |-> "search", id |-> 1]

CalcTool == [name |-> "calc", id |-> 2]

Query == <<"find", "SP", "x">>

Task == <<"t1">>

AgentInputs ==
    {EmptyDict, Dict1("input", Query), Dict1("input", <<"other">>),
     Dict1("task", Task)}

ManagerInputs ==
    {EmptyDict, Dict1("task", Task), Dict1("action", <<>>),
     Dict1("action", <<"bogus">>), Dict1("action", <<"plan">>),
     Dict1("action", <<"assign">>), Dict1("action", <<"final">>),
     Dict1("action", <<"review">>),
     DictUpdate(Dict1("action", <<"plan">>), Dict1("task", Task))}

AddedBlocks ==
    {[content |-> <<"Plan", "SP", "{task}">>, name |-> "plan"],
     [content |-> <<>>, name |-> "plan"],
     [content |-> <<"Do", "SP", "{task}">>, name |-> "request"]}

SetVariables == {<<"input", Query>>, <<"task", <<>>>>}

AddedActions ==
    {<<"review", "custom_a">>, <<"review", "custom_b">>, <<"plan", "custom_b">>}

AnswerText == <<"Answer:", "SP", "done">>

PaddedText == <<"SP", "plain", "NL">>

UnknownToolReply ==
    <<"Action:", "SP", "unknown_tool", "NL", "Action Input:", "SP", "{", "}">>

UnparsableText == <<"Action:", "SP", "search", "NL", "Action Input:", "SP", "{", "k:">>

ToolCallText ==
    <<"Action:", "SP", "search", "NL", "Action Input:", "SP", "{", "k:", "s", "}">>

LLMTexts == {AnswerText, PaddedText, UnknownToolReply, UnparsableText, ToolCallText}

\* ---- construction

DefaultIntroduction == "You are a helpful AI assistant designed to help with various tasks."

\* tool_description: one line "<name>: <description>" for each tool
ToolDescription(ts) ==
    JoinWith([i \in 1..Len(ts) |-> <<ts[i].name \o ":", "SP", "description">>], "NL")

\* a registry built once, from the tools given at construction
ToolByNamesCached(ts) == [n \in {"search"} |-> SearchTool]

\* tool_by_names: the dict comprehension keeps the last tool of each name
ToolByNames(ts) ==
    [n \in {ts[i].name : i \in 1..Len(ts)} |->
        ts[CHOOSE i \in 1..Len(ts) :
              /\ ts[i].name = n
              /\ \A j \in 1..Len(ts) : ts[j].name = n => j <= i]]

\* _init_prompt_blocks: the default blocks (role and goal are not configured)
InitPromptBlocks ==
    << [content |-> <<DefaultIntroduction>>, name |-> "introduction"],
       [content |-> <<>>, name |-> "role"],
       [content |-> <<>>, name |-> "goal"],
       [content |-> <<"DEFAULT_DATE">>, name |-> "date"],
       [content |-> <<"{tool_description}">>, name |-> "tools"],
       [content |-> <<>>, name |-> "instructions"],
       [content |-> <<"Provide your answer in a clear and concise manner.">>,
        name |-> "output_format"],
       [content |-> <<"User request:", "SP", "{input}">>, name |-> "request"],
       [content |-> <<>>, name |-> "context"] >>

\* _init_prompt_blocks: the default variables
InitPromptVariables(ts) ==
    DictUpdate(Dict1("tool_description", ToolDescription(ts)),
               Dict1("user_input", <<>>))

\* _init_actions
InitActions ==
    [n \in {"plan", "assign", "final"} |->
        CASE n = "plan" -> "_plan" [] n = "assign" -> "_assign" [] n = "final" -> "_final"]

\* the block a built-in action renders (_plan, _assign, _final)
BuiltinBlock ==
    [c \in {"_plan", "_assign", "_final"} |->
        CASE c = "_plan" -> "plan" [] c = "_assign" -> "assign" [] c = "_final" -> "final"]

\* what a custom callable registered with add_action returns
CustomResult ==
    [c \in {"custom_a", "custom_b"} |->
        CASE c = "custom_a" -> <<"A">> [] c = "custom_b" -> <<"B">>]

\* what llm.run does: it returns a result with a status and a content, or
\* it raises an error of its own
LLMResult(status, content) ==
    [content |-> content, status |-> status, raised |-> FALSE, error |-> NoRet]

\* no answer of the model collaborator yet
NoLLMAnswer == LLMResult("none", <<>>)

LLMRaised ==
    [content |-> <<>>, status |-> "", raised |-> TRUE,
     error |-> Raise("LLMError", FALSE, "model unavailable")]

\* what the tool collaborator does on tool.run: a result with a status and
\* a payload (content, recoverable), or an error of its own
ToolResult(status, content, recoverable) ==
    [recoverable |-> recoverable, content |-> content, status |-> status,
     raised |-> FALSE, error |-> NoRet]

ToolRaised ==
    [recoverable |-> FALSE, content |-> <<>>, status |-> "", raised |-> TRUE,
     error |-> Raise("ToolError", FALSE, "tool crashed")]

NoToolCall ==
    [name |-> "", tools |-> <<>>, op |-> "none", tool |-> SearchTool,
     out |-> ToolRaised, before |-> <<>>]

\* the run_depends keyword of an execute call: what the caller gave, and
\* what kwargs still holds of it
Supplied(chain) == [given |-> chain, kwargs |-> chain]

NoSupplied == Supplied(<<>>)

\* a chain the caller of execute passes as run_depends
CallerDepends == <<[id |-> 9, node |-> "caller"]>>

\* the calls of Agent.execute: input_data and the run_depends keyword
AgentCalls ==
    {<<d, <<>>>> : d \in AgentInputs} \cup {<<Dict1("input", Query), CallerDepends>>}

\* the calls of AgentManager.execute
ManagerCalls ==
    {<<d, <<>>>> : d \in ManagerInputs}
        \cup {<<Dict1("action", <<"plan">>), CallerDepends>>,
              <<Dict1("action", <<"bogus">>), CallerDepends>>}

\* no completion response handled yet
NoStream ==
    [streaming |-> FALSE, response |-> <<>>, rest |-> <<>>, chunks |-> <<>>,
     callbacks |-> <<>>, ret |-> NoRet]

\* no direct generate_prompt call yet
NoGenCall ==
    [variables |-> EmptyDict, blocks |-> <<>>, block_names |-> AllBlocks,
     kwargs |-> EmptyDict, op |-> "none",
     blocks_after |-> <<>>, variables_after |-> EmptyDict]

\* ---- objects and references: each dict or list the code creates is a cell,
\* ---- each attribute holds the address of the cell it is bound to

\* an allocation that hands out the one object its creation site already made,
\* as a class-level default would
NewSharedDefault(h, site, v) ==
    IF \E a \in 1..Len(h) : h[a].site = site
    THEN LET a == CHOOSE x \in 1..Len(h) :
                      /\ h[x].site = site
                      /\ \A y \in 1..(x - 1) : h[y].site # site
         IN  [heap |-> [h EXCEPT ![a].val = v], addr |-> a]
    ELSE [heap |-> Append(h, [site |-> site, val |-> v]), addr |-> Len(h) + 1]

\* a dict or list display ({}, [], {...}): a new object on every evaluation
New(h, site, v) ==
    [heap |-> Append(h, [site |-> site, val |-> v]), addr |-> Len(h) + 1]

\* Agent.__init__ (manager = FALSE) or AgentManager.__init__ (manager = TRUE):
\* the attributes of the new instance, each bound to an object of its own
ConstructInstance(h, manager) ==
    LET a1 == New(h, "steps", <<>>)
        a2 == New(a1.heap, "depends", <<>>)
        a3 == New(a2.heap, "blocks", InitPromptBlocks)
        a4 == New(a3.heap, "variables", InitPromptVariables(<<>>))
        a5 == IF manager THEN New(a4.heap, "actions", InitActions)
              ELSE [heap |-> a4.heap, addr |-> 0]
    IN  [heap |-> a5.heap,
         obj |-> [variables |-> a4.addr, blocks |-> a3.addr, actions |-> a5.addr,
                  manager |-> manager, steps |-> a1.addr, depends |-> a2.addr]]

\* an Agent (instance 1) and an AgentManager (instance 2), constructed in turn
TwoInstances ==
    LET first == ConstructInstance(<<>>, FALSE)
        second == ConstructInstance(first.heap, TRUE)
    IN  [heap |-> second.heap, inst |-> <<first.obj, second.obj>>]

\* Agent.__init__ / AgentManager.__init__
Constructed(manager, ts) ==
    /\ isManager = manager
    /\ tools = ts
    /\ prompt_blocks = InitPromptBlocks
    /\ prompt_variables = InitPromptVariables(ts)
    /\ intermediate_steps = <<>>
    /\ run_depends = <<>>
    /\ actions = IF manager THEN InitActions ELSE <<>>
    /\ pc = "idle"
    /\ input_data = EmptyDict
    /\ prompt = <<>>
    /\ llm_log = <<>>
    /\ llm_out = NoLLMAnswer
    /\ outcome = NoRet
    /\ dirty = FALSE
    /\ vars_before = InitPromptVariables(ts)
    /\ execs = 0
    /\ ops = 0
    /\ parse_ret = NoRet
    /\ tool_call = NoToolCall
    /\ tool_ret = NoRet
    /\ added = <<>>
    /\ answer_ret = NoRet
    /\ gen_call = NoGenCall
    /\ gen_ret = NoRet
    /\ heap = TwoInstances.heap
    /\ inst = TwoInstances.inst
    /\ results = <<>>
    /\ hlog = <<>>
    /\ supplied = NoSupplied

Init ==
    \E manager \in BOOLEAN : \E ts \in {<<>>, <<SearchTool>>} :
        Constructed(manager, ts) /\ parse_text = <<>> /\ stream = NoStream

\* ------------------------------------------------- the pieces of execute

\* reset_run_state that forgets the dependency chain
ResetRunStateStepsOnly(steps, depends) == [steps |-> <<>>, depends |-> depends]

\* reset_run_state: the new intermediate steps and dependency chain
ResetRunState(steps, depends) == [steps |-> <<>>, depends |-> <<>>]

\* execute that does not store its input
MergeInputReplacing(variables, data) == data

MergeInputDropped(variables, data) == variables

\* self._prompt_variables.update(input_data)
MergeInput(variables, data) == DictUpdate(variables, data)

\* NodeDependency(node=...).to_dict(): the entry of the dependency chain
NodeDependency(name, id) == [id |-> id, node |-> name]

LLMDependency == NodeDependency("llm", 0)

\* _run_llm that does not look at the status
RunLLMIgnoringStatus(depends, o) ==
    IF o.raised
    THEN [ret |-> o.error, depends |-> depends]
    ELSE [ret |-> Return(o.content), depends |-> <<LLMDependency>>]

\* _run_llm that reports a failed model call as a recoverable agent error
RunLLMRecoverable(depends, o) ==
    IF o.raised
    THEN [ret |-> o.error, depends |-> depends]
    ELSE [ret |-> IF o.status # "success"
                  THEN RecoverableAgentException("ToolExecutionException",
                                                 "LLM execution failed", <<>>)
                  ELSE Return(o.content),
          depends |-> <<LLMDependency>>]

\* _run_llm, given what llm.run does: what it returns or raises and the
\* dependency chain it leaves.  The chain is set as soon as llm.run has
\* returned, before the status is looked at.
RunLLM(depends, o) ==
    IF o.raised
    THEN [ret |-> o.error, depends |-> depends]
    ELSE [ret |-> IF o.status # "success"
                  THEN Raise("ValueError", FALSE, "LLM execution failed")
                  ELSE Return(o.content),
          depends |-> <<LLMDependency>>]

\* _run_agent that parses the text of the model and lets the error out
RunAgentParsing(r) ==
    IF r.kind = "return" /\ ParseAction(r.value).kind = "raise"
    THEN ParseAction(r.value)
    ELSE r

\* _run_agent: the except clause raises the error it caught
RunAgent(r) == r

\* execute that trims the text of the model
AgentContentStripped(result) == Strip(result)

\* Agent.execute, line 141: the content of the result is the text
\* _run_agent returned
AgentContent(result) == result

\* AgentManager.execute, line 352
ManagerContent(action, result) == [action |-> action, result |-> result]

ExecutionResult(content, steps) ==
    [content |-> content, intermediate_steps |-> steps]

\* input_data.get("action"): the empty text also stands for None
GetAction(data) == IF "action" \in DOMAIN data THEN data["action"] ELSE <<>>

\* a validation that forgets the missing and the empty action
ActionRejectedUnknownOnly(data, acts) ==
    GetAction(data) # <<>> /\ GetAction(data)[1] \notin DOMAIN acts

\* line 341: not action or action not in self._actions
ActionRejected(data, acts) ==
    IF GetAction(data) = <<>> THEN TRUE
    ELSE GetAction(data)[1] \notin DOMAIN acts

InvalidActionText == "Invalid or missing action: {action}. Please choose action from {self._actions}"

\* an add_action that keeps the callable a name already has
RegisterActionKeepFirst(acts, name, callable) ==
    IF name \in DOMAIN acts THEN acts ELSE DictUpdate(acts, Dict1(name, callable))

\* self._actions[name] = action
RegisterAction(acts, name, callable) == DictUpdate(acts, Dict1(name, callable))

\* a built-in action that renders every block
BuiltinFilterAll(callable) == AllBlocks

\* the block_names argument of _plan / _assign / _final
BuiltinFilter(callable) == OnlyBlocks({BuiltinBlock[callable]})

\* a manager that merges the input before it looks at the action
RejectedVariablesMerged(variables, data) == DictUpdate(variables, data)

\* self._prompt_variables when line 342 raises: line 346 is not reached
RejectedVariables(variables, data) == variables

\* an execute that leaves the run_depends keyword in kwargs
PopRunDependsKept(chain) == chain

\* kwargs.pop("run_depends", None), lines 136 and 349
PopRunDepends(chain) == <<>>

\* self.llm.run(..., run_depends=self._run_depends, **kwargs): a run_depends
\* left in kwargs is a second value for the keyword
RunLLMCall(depends, kwargs_depends, o) ==
    IF kwargs_depends # <<>>
    THEN [ret |-> Raise("TypeError", FALSE, "got multiple values for keyword argument 'run_depends'"),
          depends |-> depends, called |-> FALSE]
    ELSE [ret |-> RunLLM(depends, o).ret, depends |-> RunLLM(depends, o).depends,
          called |-> TRUE]

\* self._prompt_blocks[block_name] = content
SetBlock(blocks, name, content) ==
    IF \E i \in 1..Len(blocks) : blocks[i].name = name
    THEN [i \in 1..Len(blocks) |->
             IF blocks[i].name = name
             THEN [content |-> content, name |-> name]
             ELSE blocks[i]]
    ELSE Append(blocks, [content |-> content, name |-> name])

\* ---------------------------------------------------------------- actions

parseVars == <<parse_text, parse_ret, answer_ret>>

auxVars == <<gen_call, gen_ret, heap, inst, results, hlog, stream>>

toolVars == <<tool_call, tool_ret>>

\* Agent.execute / AgentManager.execute up to reset_run_state
Start(data, kw) ==
    /\ pc = "idle"
    /\ execs < MaxExec
    /\ LET r == ResetRunState(intermediate_steps, run_depends)
       IN  /\ intermediate_steps' = r.steps
           /\ run_depends' = r.depends
    /\ dirty' = (run_depends # <<>>)
    /\ vars_before' = prompt_variables
    /\ input_data' = data
    /\ pc' = "started"
    /\ prompt' = <<>>
    /\ llm_log' = <<>>
    /\ llm_out' = NoLLMAnswer
    /\ outcome' = NoRet
    /\ execs' = execs + 1
    /\ supplied' = Supplied(kw)
    /\ UNCHANGED <<isManager, tools, prompt_blocks, prompt_variables, actions,
                   ops, parseVars, toolVars, added, auxVars>>

Execute_Start(data, kw) == ~isManager /\ Start(data, kw)

ManagerExecute_Start(data, kw) == isManager /\ Start(data, kw)

\* Agent.execute, line 134
Execute_Merge ==
    /\ pc = "started"
    /\ ~isManager
    /\ prompt_variables' = MergeInput(prompt_variables, input_data)
    /\ supplied' = [supplied EXCEPT !.kwargs = PopRunDepends(supplied.kwargs)]
    /\ pc' = "rendering"
    /\ UNCHANGED <<isManager, tools, prompt_blocks, intermediate_steps,
                   run_depends, actions, input_data, prompt, llm_log, llm_out,
                   outcome, dirty, vars_before, execs, ops, parseVars, toolVars,
                   added, auxVars>>

\* AgentManager.execute, lines 340-344
ManagerExecute_Reject ==
    /\ pc = "started"
    /\ isManager
    /\ ActionRejected(input_data, actions)
    /\ outcome' = RecoverableAgentException("InvalidActionException",
                      InvalidActionText, <<GetAction(input_data), DOMAIN actions>>)
    /\ prompt_variables' = RejectedVariables(prompt_variables, input_data)
    /\ pc' = "idle"
    /\ UNCHANGED <<isManager, tools, prompt_blocks,
                   intermediate_steps, run_depends, actions, input_data, prompt,
                   llm_log, llm_out, dirty, vars_before, execs, ops, parseVars, toolVars, added, auxVars, supplied>>

\* AgentManager.execute, line 346
ManagerExecute_Merge ==
    /\ pc = "started"
    /\ isManager
    /\ ~ActionRejected(input_data, actions)
    /\ prompt_variables' = MergeInput(prompt_variables, input_data)
    /\ supplied' = [supplied EXCEPT !.kwargs = PopRunDepends(supplied.kwargs)]
    /\ pc' = "rendering"
    /\ UNCHANGED <<isManager, tools, prompt_blocks, intermediate_steps,
                   run_depends, actions, input_data, prompt, llm_log, llm_out,
                   outcome, dirty, vars_before, execs, ops, parseVars, toolVars,
                   added, auxVars>>

\* generate_prompt as called by the running execute: it raises out of
\* execute, or its prompt goes to _run_llm
Render(block_names) ==
    LET r == GeneratePrompt(prompt_blocks, prompt_variables, block_names, EmptyDict)
    IN  /\ IF r.kind = "raise"
           THEN outcome' = r /\ pc' = "idle" /\ prompt' = prompt
           ELSE outcome' = outcome /\ pc' = "awaiting" /\ prompt' = r.value
        /\ UNCHANGED <<isManager, tools, prompt_blocks, prompt_variables,
                       intermediate_steps, run_depends, actions, input_data,
                       llm_log, llm_out, dirty, vars_before, execs, ops, parseVars, toolVars, added, auxVars, supplied>>

\* _run_agent, line 181
RunAgent_Render ==
    /\ pc = "rendering"
    /\ ~isManager
    /\ Render(AllBlocks)

\* _plan / _assign / _final, first line
Action_Render ==
    /\ pc = "rendering"
    /\ isManager
    /\ actions[GetAction(input_data)[1]] \in DOMAIN BuiltinBlock
    /\ Render(BuiltinFilter(actions[GetAction(input_data)[1]]))

\* AgentManager.execute, lines 351-370, for a callable added with add_action
Action_Custom ==
    /\ pc = "rendering"
    /\ isManager
    /\ actions[GetAction(input_data)[1]] \in DOMAIN CustomResult
    /\ outcome' = Return(ExecutionResult(
                      ManagerContent(GetAction(input_data)[1],
                                     CustomResult[actions[GetAction(input_data)[1]]]),
                      intermediate_steps))
    /\ pc' = "idle"
    /\ UNCHANGED <<isManager, tools, prompt_blocks, prompt_variables,
                   intermediate_steps, run_depends, actions, input_data, prompt,
                   llm_log, llm_out, dirty, vars_before, execs, ops, parseVars, toolVars, added, auxVars, supplied>>

\* _run_llm and the rest of execute, for one answer of the model collaborator
LLMAnswers(o) ==
    /\ pc = "awaiting"
    /\ LET r == RunLLMCall(run_depends, supplied.kwargs, o)
           res == RunAgent(r.ret)
       IN  /\ run_depends' = r.depends
           /\ llm_log' = IF r.called
                         THEN Append(llm_log, [run_depends |-> run_depends, prompt |-> prompt])
                         ELSE llm_log
           /\ llm_out' = IF r.called THEN o ELSE llm_out
           /\ outcome' =
                IF res.kind = "raise" THEN res
                ELSE Return(ExecutionResult(
                        IF isManager
                        THEN ManagerContent(GetAction(input_data)[1], res.value)
                        ELSE AgentContent(res.value),
                        intermediate_steps))
    /\ pc' = "idle"
    /\ UNCHANGED <<isManager, tools, prompt_blocks, prompt_variables,
                   intermediate_steps, actions, input_data, prompt, dirty,
                   vars_before, execs, ops, parseVars, toolVars, added, auxVars, supplied>>

LLM_Success(text) == LLMAnswers(LLMResult("success", text))

LLM_Failure == LLMAnswers(LLMResult("failure", <<"error">>))

LLM_Raises == LLMAnswers(LLMRaised)

\* add_block
AddBlock(name, content) ==
    /\ pc = "idle"
    /\ ops < MaxOps
    /\ prompt_blocks' = SetBlock(prompt_blocks, name, content)
    /\ ops' = ops + 1
    /\ UNCHANGED <<isManager, tools, prompt_variables, intermediate_steps,
                   run_depends, actions, pc, input_data, prompt, llm_log,
                   llm_out, outcome, dirty, vars_before, execs, parseVars, toolVars, added, auxVars, supplied>>

\* set_prompt_variable
SetPromptVariable(name, value) ==
    /\ pc = "idle"
    /\ ops < MaxOps
    /\ prompt_variables' = DictUpdate(prompt_variables, Dict1(name, value))
    /\ ops' = ops + 1
    /\ UNCHANGED <<isManager, tools, prompt_blocks, intermediate_steps,
                   run_depends, actions, pc, input_data, prompt, llm_log,
                   llm_out, outcome, dirty, vars_before, execs, parseVars, toolVars, added, auxVars, supplied>>

\* add_action
AddAction(name, callable) ==
    /\ pc = "idle"
    /\ isManager
    /\ ops < MaxOps
    /\ actions' = RegisterAction(actions, name, callable)
    /\ added' = Append(added, <<name, callable>>)
    /\ ops' = ops + 1
    /\ UNCHANGED <<isManager, tools, prompt_blocks, prompt_variables,
                   intermediate_steps, run_depends, pc, input_data, prompt,
                   llm_log, llm_out, outcome, dirty, vars_before, execs,
                   parseVars, toolVars, auxVars, supplied>>

Next ==
    \/ \E c \in AgentCalls : Execute_Start(c[1], c[2])
    \/ \E c \in ManagerCalls : ManagerExecute_Start(c[1], c[2])
    \/ Execute_Merge
    \/ ManagerExecute_Reject
    \/ ManagerExecute_Merge
    \/ RunAgent_Render
    \/ Action_Render
    \/ Action_Custom
    \/ \E t \in LLMTexts : LLM_Success(t)
    \/ LLM_Failure
    \/ LLM_Raises
    \/ \E b \in AddedBlocks : AddBlock(b.name, b.content)
    \/ \E v \in SetVariables : SetPromptVariable(v[1], v[2])
    \/ \E a \in AddedActions : AddAction(a[1], a[2])

Spec == Init /\ [][Next]_vars

\* ------------------------------------------------------ the tool dispatcher

\* longest tool list the model configures
MaxTools == 2

OtherSearchTool == [name |-> "search", id |-> 3]

ToolSet == {SearchTool, CalcTool, OtherSearchTool}

RECURSIVE SeqsUpTo(_, _)
\* the sequences over S of length at most n
SeqsUpTo(S, n) ==
    IF n = 0 THEN {<<>>}
    ELSE SeqsUpTo(S, n - 1)
            \cup {Append(q, x) : q \in {r \in SeqsUpTo(S, n - 1) : Len(r) = n - 1}, x \in S}

ToolLists == SeqsUpTo(ToolSet, MaxTools)

LookupNames == {"search", "calc", "Search", "unknown_tool"}

ToolOutcomes ==
    {ToolResult("success", <<"result-x">>, r) : r \in BOOLEAN}
        \cup {ToolResult("failure", <<"oops">>, r) : r \in BOOLEAN}
        \cup {ToolRaised}

UnknownToolText == "Unknown tool: {action} Use only available tools and provide only its name in action field. Do not provide any aditional reasoning in action field. Reiterate and provide proper value for action field or say that you cannot answer the question."

\* _get_tool
GetTool(ts, action) ==
    IF action \in DOMAIN ToolByNames(ts)
    THEN Return(ToolByNames(ts)[action])
    ELSE RecoverableAgentException("AgentUnknownToolException", UnknownToolText, action)

\* _run_tool that takes every failure for a recoverable one
RunToolAlwaysRecoverable(depends, tool, o) ==
    IF o.raised
    THEN [ret |-> o.error, depends |-> depends]
    ELSE [ret |-> IF o.status # "success"
                  THEN RecoverableAgentException("ToolExecutionException", "", o.content)
                  ELSE Return(o.content),
          depends |-> <<NodeDependency(tool.name, tool.id)>>]

\* _run_tool, given what tool.run does: what it returns or raises and the
\* dependency chain it leaves.  The chain is set as soon as tool.run has
\* returned, before the status is looked at.
RunTool(depends, tool, o) ==
    IF o.raised
    THEN [ret |-> o.error, depends |-> depends]
    ELSE [ret |-> IF o.status # "success"
                  THEN IF o.recoverable
                       THEN RecoverableAgentException("ToolExecutionException", "", o.content)
                       ELSE RaiseWith("ValueError", FALSE, "", o.content)
                  ELSE Return(o.content),
          depends |-> <<NodeDependency(tool.name, tool.id)>>]

agentVars == <<isManager, prompt_blocks, prompt_variables, intermediate_steps,
               actions, pc, input_data, prompt, llm_log, llm_out, outcome,
               dirty, vars_before, execs, ops>>

\* agent.tools = ts
SetTools(ts) ==
    /\ pc = "idle"
    /\ tools' = ts
    /\ UNCHANGED <<agentVars, run_depends, parseVars, toolVars, added, auxVars, supplied>>

\* a call of _get_tool
Call_GetTool(name) ==
    /\ pc = "idle"
    /\ tool_call' = [NoToolCall EXCEPT !.op = "_get_tool", !.name = name,
                                       !.tools = tools, !.before = run_depends]
    /\ tool_ret' = GetTool(tools, name)
    /\ UNCHANGED <<agentVars, tools, run_depends, parseVars, added, auxVars, supplied>>

\* a call of _run_tool with one of the configured tools
Call_RunTool(tool, o) ==
    /\ pc = "idle"
    /\ LET r == RunTool(run_depends, tool, o)
       IN  /\ tool_ret' = r.ret
           /\ run_depends' = r.depends
    /\ tool_call' = [NoToolCall EXCEPT !.op = "_run_tool", !.name = tool.name,
                                       !.tool = tool, !.out = o,
                                       !.tools = tools, !.before = run_depends]
    /\ UNCHANGED <<agentVars, tools, parseVars, added, auxVars, supplied>>

ToolsInit == Constructed(FALSE, <<SearchTool>>) /\ parse_text = <<>> /\ stream = NoStream

ToolsNext ==
    \/ \E ts \in ToolLists : SetTools(ts)
    \/ \E n \in LookupNames : Call_GetTool(n)
    \/ \E i \in 1..Len(tools) : \E o \in ToolOutcomes : Call_RunTool(tools[i], o)

SpecTools == ToolsInit /\ [][ToolsNext]_vars

\* ------------------------------------------------------ the response parser

RECURSIVE Nest(_)
\* a JSON object nested d levels deep
Nest(d) ==
    IF d = 0 THEN <<"{", "k:", "1", "}">>
    ELSE <<"{", "k:">> \o Nest(d - 1) \o <<"}">>

\* JSON objects, none with a fence marker in a string
JsonObjects ==
    {Nest(d) : d \in 0..MaxDepth}
        \cup {<<"{", "}">>,
              <<"{", "NL", "k:", "SP", "s", "NL", "}">>,
              <<"{", "k:", "1", ",", "SP", "k:", "[", "s", "]", "}">>}

\* a JSON object with a fence marker inside a string
JsonFenceObjects == {<<"{", "k:", "sF", "}">>}

\* valid JSON that is no object
JsonOthers == {<<"[", "s", "]">>, <<"1">>, <<"s">>, <<"[", "{", "k:", "1", "}", "]">>}

\* texts that are no JSON
NotJson ==
    {<<>>, <<"plain">>, <<"{", "k:", "1">>, <<"{", "NL", "k:", "1">>,
     <<"{", "plain", "}">>, <<"{", "k:", "}">>, <<"{", "k:", "1", "}", "}">>}

ParseNames == {"search", "calc"}

Preambles == {<<>>, <<"Thought:", "SP", "go", "NL">>}

\* the JSON text as the model wrote it, in a json fence or bare
Wrapped(input, fenced) ==
    IF fenced THEN <<"FENCEjson", "NL">> \o input \o <<"NL", "FENCE">> ELSE input

\* "Action: <name>" and on the next line "Action Input: <input>"
WellFormed(pre, name, input, fenced) ==
    pre \o <<"Action:", "SP", name, "NL", "Action Input:", "SP">> \o Wrapped(input, fenced)

\* texts in which no line pair "Action: ..." / "Action Input: ..." exists
Unmatched ==
    {<<>>, <<"plain", "SP", "text">>, <<"Answer:", "SP", "done">>,
     <<"Action Input:", "SP", "{", "}">>,
     <<"Action:", "SP", "search", "SP", "Action Input:", "SP", "{", "}">>,
     <<"Action:", "SP", "search", "NL", "{", "}">>}

ParseTexts ==
    {WellFormed(pre, name, input, fenced) :
        pre \in Preambles, name \in ParseNames,
        input \in JsonObjects \cup JsonFenceObjects \cup JsonOthers \cup NotJson,
        fenced \in BOOLEAN}
        \cup Unmatched

\* texts with and without the marker of a final answer
AnswerTexts ==
    {<<"Answer:">>,
     <<"Answer:", "NL", "y">>,
     <<"Answer:", "SP", "a", "NL", "b">>,
     <<"Answer:", "SP", "a", "NL", "Answer:", "SP", "b">>,
     <<"Thought:", "SP", "ok", "NL", "Answer:", "SP", "SP", "42", "SP", "NL">>,
     <<"The", "SP", "Answer:", "SP", "x">>,
     <<"x", "SP", "Answer:", "SP", "a", "NL", "Answer:", "SP", "b">>,
     <<"Thought:", "SP", "no", "SP", "answer", "NL">>}

\* the index of the first token t of s
FirstIndex(s, t) == CHOOSE i \in 1..Len(s) : s[i] = t /\ \A j \in 1..(i - 1) : s[j] # t

\* _extract_final_answer: re.search(r"Answer:\s*(.*)", output, re.DOTALL)
\* matches at the first "Answer:" of the text, wherever it stands, and group 1
\* runs to the end of the text
ExtractFinalAnswer(output) ==
    IF ~Contains(output, "Answer:") THEN Return(<<>>)
    ELSE Return(Strip(SubSeq(output, FirstIndex(output, "Answer:") + 1, Len(output))))

\* a call of _extract_final_answer on the text drawn at the start
Call_ExtractFinalAnswer ==
    /\ answer_ret = NoRet
    /\ answer_ret' = ExtractFinalAnswer(parse_text)
    /\ UNCHANGED <<agentVars, tools, run_depends, parse_text, parse_ret, toolVars,
                   added, auxVars, supplied>>

\* a call of _parse_action on the text drawn at the start
Call_ParseAction ==
    /\ parse_ret = NoRet
    /\ parse_ret' = ParseAction(parse_text)
    /\ UNCHANGED <<agentVars, tools, run_depends, parse_text, answer_ret, toolVars,
                   added, auxVars, supplied>>

ParseInit ==
    \E t \in ParseTexts \cup AnswerTexts :
        Constructed(FALSE, <<SearchTool>>) /\ parse_text = t /\ stream = NoStream

ParseNext == Call_ParseAction \/ Call_ExtractFinalAnswer

SpecParse == ParseInit /\ [][ParseNext]_vars

\* ------------------------------------------------- generate_prompt, called

\* the block_names arguments the model passes
GenBlockNames ==
    {AllBlocks, OnlyBlocks({}), OnlyBlocks({"request"}), OnlyBlocks({"tools", "plan"})}

\* the keyword arguments the model passes
GenKwargs ==
    {EmptyDict, Dict1("input", <<"override">>), Dict1("task", Task),
     Dict1("tool_description", <<"none">>)}

\* a render that updates self._prompt_variables itself, without the copy
StoredAfterRenderInPlace(variables, kwargs) == DictUpdate(variables, kwargs)

\* self._prompt_variables after generate_prompt: lines 283-284 update a copy
StoredAfterRender(variables, kwargs) == variables

\* a call of generate_prompt(block_names, **kwargs) from outside execute
Call_GeneratePrompt(block_names, kwargs) ==
    /\ pc = "idle"
    /\ gen_ret' = GeneratePrompt(prompt_blocks, prompt_variables, block_names, kwargs)
    /\ prompt_variables' = StoredAfterRender(prompt_variables, kwargs)
    /\ prompt_blocks' = prompt_blocks
    /\ gen_call' = [variables |-> prompt_variables, blocks |-> prompt_blocks,
                    block_names |-> block_names, kwargs |-> kwargs,
                    op |-> "generate_prompt",
                    blocks_after |-> prompt_blocks',
                    variables_after |-> prompt_variables']
    /\ UNCHANGED <<isManager, tools, intermediate_steps, run_depends, actions, pc,
                   input_data, prompt, llm_log, llm_out, outcome, dirty,
                   vars_before, execs, ops, parseVars, toolVars, added, heap,
                   inst, results, hlog, supplied, stream>>

PromptNext ==
    \/ \E b \in AddedBlocks : AddBlock(b.name, b.content)
    \/ \E v \in SetVariables : SetPromptVariable(v[1], v[2])
    \/ \E bn \in GenBlockNames : \E kw \in GenKwargs : Call_GeneratePrompt(bn, kw)

SpecPrompt == Init /\ [][PromptNext]_vars

\* ------------------------------------------------- two instances, by reference

\* number of calls made on the two instances in a behaviour
MaxCalls == 3

Instances == {1, 2}

\* the object an attribute is bound to
Deref(h, a) == h[a].val

\* a change of the object itself (d[k] = v, d.update(...)): every reference
\* to the object sees it
Store(h, a, v) == [h EXCEPT ![a].val = v]

\* an execute that fills and returns one result dict it keeps
ResultObjectReused(h, content, steps) ==
    NewSharedDefault(h, "result", ExecutionResult(content, steps))

\* execution_result = {"content": ..., "intermediate_steps": ...}: a new dict
\* on every call, holding a reference to the steps object
ResultObject(h, content, steps) == New(h, "result", ExecutionResult(content, steps))

HeapBlocks ==
    {[content |-> <<"Plan", "SP", "{task}">>, name |-> "plan"],
     [content |-> <<"Do", "SP", "{task}">>, name |-> "request"]}

HeapVariables == {<<"task", Task>>}

HeapActions == {<<"review", "custom_a">>}

\* the input_data of the execute calls: of Agent.execute for instance 1, of
\* AgentManager.execute for instance 2
HeapInputs(i) ==
    IF i = 1 THEN {EmptyDict, Dict1("input", Query)}
    ELSE {Dict1("action", <<"bogus">>), Dict1("action", <<"plan">>),
          Dict1("action", <<"review">>)}

HeapOutcomes ==
    {LLMResult("success", AnswerText), LLMResult("success", PaddedText),
     LLMResult("failure", <<"error">>), LLMRaised}

singleVars == <<isManager, tools, prompt_blocks, prompt_variables,
                intermediate_steps, run_depends, actions, pc, input_data, prompt,
                llm_log, llm_out, outcome, dirty, vars_before, execs, ops,
                parseVars, toolVars, added, gen_call, gen_ret, supplied, stream>>

\* add_block on instance i
Heap_AddBlock(i, name, content) ==
    /\ Len(hlog) < MaxCalls
    /\ heap' = Store(heap, inst[i].blocks,
                     SetBlock(Deref(heap, inst[i].blocks), name, content))
    /\ hlog' = Append(hlog, i)
    /\ UNCHANGED <<singleVars, inst, results>>

\* set_prompt_variable on instance i
Heap_SetPromptVariable(i, name, value) ==
    /\ Len(hlog) < MaxCalls
    /\ heap' = Store(heap, inst[i].variables,
                     DictUpdate(Deref(heap, inst[i].variables), Dict1(name, value)))
    /\ hlog' = Append(hlog, i)
    /\ UNCHANGED <<singleVars, inst, results>>

\* add_action on instance i, an AgentManager
Heap_AddAction(i, name, callable) ==
    /\ Len(hlog) < MaxCalls
    /\ inst[i].manager
    /\ heap' = Store(heap, inst[i].actions,
                     RegisterAction(Deref(heap, inst[i].actions), name, callable))
    /\ hlog' = Append(hlog, i)
    /\ UNCHANGED <<singleVars, inst, results>>

\* execute on instance i, from the reset to the return or the raise, for one
\* answer o of the model collaborator.  reset_run_state and _run_llm bind the
\* attributes to new objects, the merge of the input changes the variables
\* dict itself, and the result is a new dict that refers to the steps object.
Heap_Execute(i, data, o) ==
    /\ Len(hlog) < MaxCalls
    /\ LET obj == inst[i]
           s1 == New(heap, "steps", <<>>)
           s2 == New(s1.heap, "depends", <<>>)
           fresh == [obj EXCEPT !.steps = s1.addr, !.depends = s2.addr]
           rejected == IF obj.manager
                       THEN ActionRejected(data, Deref(s2.heap, obj.actions))
                       ELSE FALSE
           h3 == Store(s2.heap, obj.variables,
                       MergeInput(Deref(s2.heap, obj.variables), data))
           callable == IF obj.manager
                       THEN Deref(h3, obj.actions)[GetAction(data)[1]]
                       ELSE "_run_agent"
           r == GeneratePrompt(Deref(h3, obj.blocks), Deref(h3, obj.variables),
                               IF obj.manager THEN BuiltinFilter(callable) ELSE AllBlocks,
                               EmptyDict)
           Abort(h, ob) ==
               /\ heap' = h
               /\ inst' = [inst EXCEPT ![i] = ob]
               /\ results' = results
           Finish(h, ob, content) ==
               LET c == ResultObject(h, content, ob.steps)
               IN  /\ heap' = c.heap
                   /\ inst' = [inst EXCEPT ![i] = ob]
                   /\ results' = Append(results,
                                    [content |-> content, inst |-> i, addr |-> c.addr,
                                     steps |-> Deref(c.heap, ob.steps)])
       IN  IF rejected THEN Abort(s2.heap, fresh)
           ELSE IF callable \in DOMAIN CustomResult
           THEN Finish(h3, fresh,
                       ManagerContent(GetAction(data)[1], CustomResult[callable]))
           ELSE IF r.kind = "raise" THEN Abort(h3, fresh)
           ELSE LET l == RunLLM(Deref(h3, fresh.depends), o)
                    res == RunAgent(l.ret)
                    d == New(h3, "depends", l.depends)
                    h4 == IF o.raised THEN h3 ELSE d.heap
                    ob4 == IF o.raised THEN fresh ELSE [fresh EXCEPT !.depends = d.addr]
                IN  IF res.kind = "raise" THEN Abort(h4, ob4)
                    ELSE Finish(h4, ob4,
                                IF obj.manager
                                THEN ManagerContent(GetAction(data)[1], res.value)
                                ELSE AgentContent(res.value))
    /\ hlog' = Append(hlog, i)
    /\ UNCHANGED singleVars

HeapInit == Constructed(FALSE, <<>>) /\ parse_text = <<>> /\ stream = NoStream

HeapNext ==
    \/ \E i \in Instances : \E b \in HeapBlocks : Heap_AddBlock(i, b.name, b.content)
    \/ \E i \in Instances : \E v \in HeapVariables : Heap_SetPromptVariable(i, v[1], v[2])
    \/ \E i \in Instances : \E a \in HeapActions : Heap_AddAction(i, a[1], a[2])
    \/ \E i \in Instances : \E d \in HeapInputs(i) : \E o \in HeapOutcomes :
          Heap_Execute(i, d, o)

SpecHeap == HeapInit /\ [][HeapNext]_vars

\* ------------------------------------------- the LLM node and its response

\* most chunks in a streamed response
MaxChunks == 3

\* the text a chunk carries; the closing chunk of a stream carries none
ChunkTexts == {<<"a">>, <<"b">>, <<>>}

\* a chunk as the provider delivers it
Chunk(text) == [content |-> text, object |-> "chunk"]

\* the streamed responses: one chunk at least
Responses ==
    {r \in SeqsUpTo({Chunk(t) : t \in ChunkTexts}, MaxChunks) : r # <<>>}

\* chunk.model_dump(): the fields of the chunk as a dict
ModelDump(chunk) == [content |-> chunk.content]

RECURSIVE JoinContents(_)
\* the texts of the chunks, one after the other
JoinContents(chunks) ==
    IF chunks = <<>> THEN <<>>
    ELSE Head(chunks).content \o JoinContents(Tail(chunks))

\* litellm.stream_chunk_builder: one response whose message content is the
\* contents of the chunks it is given, joined in order
StreamChunkBuilder(chunks) ==
    [content |-> JoinContents(chunks), object |-> "response"]

\* _handle_completion_response: the content of the first choice
HandleCompletionResponse(response) ==
    [content |-> response.content, tool_calls |-> "None"]

\* a loop that stops one chunk short
StreamDoneEarly(rest) == Len(rest) <= 1

\* for chunk in response: the loop ends when the response is exhausted
StreamDone(rest) == rest = <<>>

streamRest == <<agentVars, tools, run_depends, parseVars, toolVars, added,
                gen_call, gen_ret, heap, inst, results, hlog, supplied>>

\* one turn of the loop of _handle_streaming_completion_response
Stream_Chunk ==
    /\ stream.streaming
    /\ stream.ret = NoRet
    /\ ~StreamDone(stream.rest)
    /\ stream' = [stream EXCEPT
                    !.chunks = Append(@, Head(stream.rest)),
                    !.callbacks = Append(@, ModelDump(Head(stream.rest))),
                    !.rest = Tail(@)]
    /\ UNCHANGED streamRest

\* lines 199-200, after the loop
Stream_Build ==
    /\ stream.streaming
    /\ stream.ret = NoRet
    /\ StreamDone(stream.rest)
    /\ stream' = [stream EXCEPT
                    !.ret = Return(HandleCompletionResponse(
                                StreamChunkBuilder(stream.chunks)))]
    /\ UNCHANGED streamRest

\* the provider fails while the response is read: the error leaves the loop
Stream_Raises ==
    /\ stream.streaming
    /\ stream.ret = NoRet
    /\ stream.rest # <<>>
    /\ stream' = [stream EXCEPT !.ret = Raise("StreamError", FALSE, "connection lost")]
    /\ UNCHANGED streamRest

\* execute with streaming disabled: the response is complete when it arrives
Complete_Response ==
    /\ ~stream.streaming
    /\ stream.ret = NoRet
    /\ stream' = [stream EXCEPT
                    !.rest = <<>>,
                    !.ret = Return(HandleCompletionResponse(
                                [content |-> JoinContents(stream.response),
                                 object |-> "response"]))]
    /\ UNCHANGED streamRest

StreamInit ==
    /\ Constructed(FALSE, <<>>)
    /\ parse_text = <<>>
    /\ \E streaming \in BOOLEAN : \E r \in Responses :
          stream = [NoStream EXCEPT !.streaming = streaming, !.response = r, !.rest = r]

StreamNext == Stream_Chunk \/ Stream_Build \/ Stream_Raises \/ Complete_Response

SpecStream == StreamInit /\ [][StreamNext]_vars

\* ------------------------------------------------------------------ claims

\* the model answered the running or the last execute with a success status
ModelSucceeded == ~llm_out.raised /\ llm_out.status = "success"

\* the model was called and raised or reported a failure
ModelFailed == llm_out.raised \/ llm_out.status = "failure"

\* an action text taken as one tool name
ActionName(a) == IF Len(a) = 1 THEN a[1] ELSE ""

\* the text cannot be parsed as an action, or names a tool that is not
\* configured: _parse_action or _get_tool would raise a recoverable error
NeedsCorrection(text, ts) ==
    IF ParseAction(text).kind = "raise" THEN TRUE
    ELSE GetTool(ts, ActionName(ParseAction(text).value[1])).kind = "raise"

\* the text of the model in the content of a result
ResultText(result) ==
    IF isManager THEN result.content.result ELSE result.content

\* C1: while an execute is past its first statement (the manager action not
\* yet validated, the prompt not yet rendered, the model not yet called) the
\* intermediate steps and the dependency chain are empty, whatever the
\* execute before left in them.
C1_ResetFirst ==
    pc # "idle" => intermediate_steps = <<>> /\ run_depends = <<>>

C1_Witness == pc \in {"started", "rendering"} /\ dirty /\ execs = 2

C3_NeverRecoverable == outcome.kind = "raise" => ~outcome.recoverable

\* C3 amended: the only error marked recoverable that execute raises is the
\* InvalidActionException of AgentManager.execute for a missing or
\* unregistered action, raised before any model call; Agent.execute and the
\* built-in manager actions raise only errors that are not recoverable.
C3_OnlyInvalidAction ==
    (outcome.kind = "raise" /\ outcome.recoverable)
        => /\ isManager
           /\ outcome.type = "InvalidActionException"
           /\ llm_log = <<>>
           /\ IF GetAction(input_data) = <<>> THEN TRUE
              ELSE GetAction(input_data)[1] \notin outcome.detail[2]

C3_Witness ==
    /\ outcome.kind = "raise"
    /\ outcome.recoverable
    /\ GetAction(input_data) = <<"bogus">>

\* C4: when the model collaborator raises or reports a failure, execute
\* raises an error that is not recoverable and returns no result; an error
\* of the collaborator itself is the error the caller gets.
C4_ModelFailureIsFatal ==
    (pc = "idle" /\ ModelFailed)
        => /\ outcome.kind = "raise"
           /\ ~outcome.recoverable
           /\ (llm_out.raised => outcome = llm_out.error)

C4_Witness ==
    /\ pc = "idle"
    /\ isManager
    /\ llm_out.status = "failure"
    /\ outcome.type = "ValueError"

\* C5: in Agent.execute the model is not called before the prompt is
\* rendered; the variables are the stored ones overridden by input_data
\* before the render, and the prompt given to the model is the full prompt
\* rendered from them.
C5_RenderBeforeModel ==
    ~isManager =>
        /\ pc \in {"started", "rendering", "awaiting"} => llm_log = <<>>
        /\ pc \in {"rendering", "awaiting"} =>
              prompt_variables = DictUpdate(vars_before, input_data)
        /\ pc = "awaiting" =>
              Return(prompt) = GeneratePrompt(prompt_blocks,
                                              DictUpdate(vars_before, input_data),
                                              AllBlocks, EmptyDict)
        /\ llm_log # <<>> => llm_log[1].prompt = prompt

C5_Witness ==
    /\ ~isManager
    /\ llm_log # <<>>
    /\ input_data = Dict1("input", Query)
    /\ Contains(llm_log[1].prompt, "find")

\* C6: an Agent.execute whose model call succeeds has called the model once
\* and returns the text of the model unchanged, with the intermediate steps.
C6_OneCallRawContent ==
    (~isManager /\ pc = "idle" /\ ModelSucceeded)
        => /\ Len(llm_log) = 1
           /\ outcome = Return(ExecutionResult(llm_out.content, intermediate_steps))

C6_Witness ==
    /\ ~isManager
    /\ pc = "idle"
    /\ llm_out = LLMResult("success", PaddedText)
    /\ outcome.kind = "return"

\* the structure json.loads gives for a valid JSON text
Decoded(input) == SelectSeq(input, NotSpace)

\* the parse of every text "Action: <name>" / "Action Input: <input>" with
\* an input of the set, bare or in a json fence, is the name and the
\* decoded input
ParsesExactly(inputs) ==
    parse_ret # NoRet =>
        \A pre \in Preambles, name \in ParseNames, input \in inputs, fenced \in BOOLEAN :
            parse_text = WellFormed(pre, name, input, fenced)
                => parse_ret = Return(<<<<name>>, Decoded(input)>>)

\* C7 as stated: every valid JSON input is returned decoded, with the name.
C7_AnyJsonInput == ParsesExactly(JsonObjects \cup JsonFenceObjects \cup JsonOthers)

\* C7 amended: every input that is a JSON object without a fence marker in
\* its strings is returned decoded, with the name.
C7_ObjectInput == ParsesExactly(JsonObjects)

C7_Witness ==
    /\ parse_ret.kind = "return"
    /\ parse_text = WellFormed(<<>>, "search", Nest(MaxDepth), TRUE)

\* C8: _parse_action raises nothing but the recoverable
\* ActionParsingException with the guidance text, and raises it for every
\* text without the "Action:" marker and for every text whose action input
\* is no valid structured data.
C8_OnlyParsingError ==
    parse_ret # NoRet =>
        /\ parse_ret.kind = "raise" =>
              parse_ret = RaiseWith("ActionParsingException", TRUE, ParseGuidance, <<>>)
        /\ ~Contains(parse_text, "Action:") => parse_ret.kind = "raise"
        /\ \A pre \in Preambles, name \in ParseNames, input \in NotJson, fenced \in BOOLEAN :
              parse_text = WellFormed(pre, name, input, fenced)
                  => parse_ret.kind = "raise"

C8_Witness ==
    /\ parse_ret.kind = "raise"
    /\ parse_text = WellFormed(<<>>, "search", <<"{", "k:", "1">>, FALSE)

\* C9: _get_tool returns a tool of the list configured at the time of the
\* call that has the name asked for, when there is one, and raises the
\* recoverable AgentUnknownToolException with its guidance otherwise.
C9_GetTool ==
    tool_call.op = "_get_tool" =>
        LET ts == tool_call.tools
            named == {ts[i] : i \in {j \in 1..Len(ts) : ts[j].name = tool_call.name}}
        IN  IF named # {}
            THEN tool_ret.kind = "return" /\ tool_ret.value \in named
            ELSE /\ tool_ret.kind = "raise"
                 /\ tool_ret.type = "AgentUnknownToolException"
                 /\ tool_ret.recoverable
                 /\ tool_ret.msg = UnknownToolText
                 /\ tool_ret.detail = tool_call.name

C9_Witness ==
    /\ tool_call.op = "_get_tool"
    /\ tool_call.name = "calc"
    /\ tool_call.tools = <<SearchTool, CalcTool>>
    /\ tool_ret.kind = "return"
    /\ tool_ret.value = CalcTool

\* C10: _run_tool raises the recoverable ToolExecutionException for a failed
\* result whose payload is marked recoverable, an error that is not
\* recoverable for a failed result whose payload is not, and returns the
\* content of a successful result whatever its payload says.
C10_RunToolClassifies ==
    (tool_call.op = "_run_tool" /\ ~tool_call.out.raised) =>
        LET o == tool_call.out
        IN  /\ (o.status # "success" /\ o.recoverable) =>
                  /\ tool_ret.kind = "raise"
                  /\ tool_ret.type = "ToolExecutionException"
                  /\ tool_ret.recoverable
            /\ (o.status # "success" /\ ~o.recoverable) =>
                  /\ tool_ret.kind = "raise"
                  /\ ~tool_ret.recoverable
            /\ o.status = "success" =>
                  tool_ret.kind = "return" /\ tool_ret.value = o.content

C10_Witness ==
    /\ tool_call.op = "_run_tool"
    /\ tool_call.out = ToolResult("failure", <<"oops">>, FALSE)
    /\ tool_ret.type = "ValueError"

\* the names a block header can carry
HeaderTokens == {Upper[n] : n \in DOMAIN Upper}

\* the input names no action, an empty one, or one outside the names given
Unusable(data, names) ==
    IF "action" \notin DOMAIN data THEN TRUE
    ELSE IF data["action"] = <<>> THEN TRUE
    ELSE data["action"][1] \notin names

\* C11: AgentManager.execute raises InvalidActionException, marked
\* recoverable, with a message that lists the registered actions, whenever
\* the input has no action key, an empty action or an action that is not
\* registered; for a registered action it goes on and never raises this error.
C11_InvalidAction ==
    /\ [][(isManager /\ pc = "started")
            => IF Unusable(input_data, DOMAIN actions)
               THEN /\ pc' = "idle"
                    /\ outcome'.kind = "raise"
                    /\ outcome'.type = "InvalidActionException"
                    /\ outcome'.recoverable
                    /\ outcome'.msg = InvalidActionText
                    /\ outcome'.detail = <<GetAction(input_data), DOMAIN actions>>
               ELSE pc' = "rendering" /\ outcome' = NoRet]_vars
    /\ []((outcome.kind = "raise" /\ outcome.type = "InvalidActionException")
            => isManager /\ Unusable(input_data, outcome.detail[2]))

C11_Witness ==
    /\ isManager
    /\ pc = "idle"
    /\ "action" \notin DOMAIN input_data
    /\ outcome.kind = "raise"
    /\ outcome.type = "InvalidActionException"
    /\ outcome.recoverable
    /\ outcome.detail[2] = {"plan", "assign", "final", "review"}

\* the name was never given to add_action
NeverAdded(n) == \A i \in 1..Len(added) : added[i][1] # n

\* C12: AgentManager.execute with the action plan, assign or final, while
\* that action is the built-in one, calls the model exactly once, with the
\* prompt rendered from the block of that name alone and from no default
\* block, and returns the content {action, result} with the model text.
C12_BuiltinActions ==
    /\ (isManager /\ pc = "awaiting")
          => LET a == GetAction(input_data)[1]
             IN  /\ a \in {"plan", "assign", "final"}
                 /\ llm_log = <<>>
                 /\ Return(prompt) = GeneratePrompt(prompt_blocks, prompt_variables,
                                                    OnlyBlocks({a}), EmptyDict)
                 /\ \A i \in 1..Len(prompt) :
                        prompt[i] \in HeaderTokens => prompt[i] = Upper[a]
    /\ (isManager /\ pc = "idle" /\ outcome.kind = "return"
            /\ NeverAdded(GetAction(input_data)[1]))
          => LET a == GetAction(input_data)[1]
             IN  /\ a \in {"plan", "assign", "final"}
                 /\ Len(llm_log) = 1
                 /\ llm_log[1].prompt = prompt
                 /\ ModelSucceeded
                 /\ outcome.value = [content |-> [action |-> a,
                                                  result |-> llm_out.content],
                                     intermediate_steps |-> <<>>]

C12_Witness ==
    /\ isManager
    /\ pc = "idle"
    /\ outcome.kind = "return"
    /\ GetAction(input_data) = <<"plan">>
    /\ NeverAdded("plan")
    /\ prompt = <<"PLAN:", "NL", "Plan", "SP", "t1">>
    /\ outcome.value.content = [action |-> "plan", result |-> AnswerText]

\* the callable the latest add_action call gave the name, or the built-in one
LatestAdded(n) ==
    LET idx == {i \in 1..Len(added) : added[i][1] = n}
    IN  IF idx = {}
        THEN IF n \in DOMAIN InitActions THEN InitActions[n] ELSE ""
        ELSE added[CHOOSE i \in idx : \A j \in idx : j <= i][2]

\* C13: after any sequence of add_action calls the registered names are the
\* three built-in ones and every added name; each name maps to the callable
\* registered last under it, also when that replaces a built-in one; execute
\* runs that callable; no registration is ever removed.
C13_Registration ==
    /\ [](isManager
            => /\ DOMAIN actions =
                    {"plan", "assign", "final"} \cup {added[i][1] : i \in 1..Len(added)}
               /\ \A n \in DOMAIN actions : actions[n] = LatestAdded(n))
    /\ [][DOMAIN actions \subseteq DOMAIN actions']_vars
    /\ [][(isManager /\ pc = "rendering")
            => LET n == GetAction(input_data)[1]
                   c == LatestAdded(n)
               IN  IF c \in DOMAIN CustomResult
                   THEN /\ pc' = "idle"
                        /\ outcome' = Return([content |-> [action |-> n,
                                                            result |-> CustomResult[c]],
                                              intermediate_steps |-> <<>>])
                   ELSE \/ outcome'.kind = "raise" /\ outcome'.type = "KeyError"
                        \/ /\ pc' = "awaiting"
                           /\ Return(prompt') =
                                GeneratePrompt(prompt_blocks, prompt_variables,
                                               OnlyBlocks({BuiltinBlock[c]}), EmptyDict)]_vars

C13_Witness ==
    /\ isManager
    /\ pc = "idle"
    /\ added = <<<<"plan", "custom_b">>>>
    /\ GetAction(input_data) = <<"plan">>
    /\ outcome.kind = "return"
    /\ outcome.value.content = [action |-> "plan", result |-> <<"B">>]

\* the block headers of a prompt, in the order they stand in it
HeadersOf(text) == SelectSeq(text, LAMBDA t : t \in HeaderTokens)

\* block_names lets the block through
Named(b, block_names) == ~block_names.given \/ b.name \in block_names.names

\* C14 as stated: generate_prompt emits the blocks in insertion order and
\* leaves a block out exactly when block_names is given without its name or
\* when its content is empty after the variables are substituted; such a
\* block puts nothing into the prompt, not even its header line.
C14_EmptyRenderedOmitted ==
    (gen_call.op = "generate_prompt" /\ gen_ret.kind = "return")
        => LET temp == DictUpdate(gen_call.variables, gen_call.kwargs)
               expected == SelectSeq(gen_call.blocks, LAMBDA b :
                               IF Named(b, gen_call.block_names)
                               THEN Format(b.content, temp) # <<>>
                               ELSE FALSE)
               headers == HeadersOf(gen_ret.value)
           IN  /\ Len(headers) = Len(expected)
               /\ \A i \in 1..Len(expected) : headers[i] = Upper[expected[i].name]

\* a block that block_names lets through names a variable that is not there
MissingVariable(blocks, variables, block_names) ==
    \E i \in 1..Len(blocks) :
        /\ Named(blocks[i], block_names)
        /\ \E j \in 1..Len(blocks[i].content) :
              /\ blocks[i].content[j] \in {"{input}", "{task}", "{tool_description}"}
              /\ PlaceholderVar[blocks[i].content[j]] \notin DOMAIN variables

\* the block_names of the render the running execute is at
RenderFilter ==
    IF isManager THEN OnlyBlocks({GetAction(input_data)[1]}) ELSE AllBlocks

\* C15: when a block that is rendered names a variable that neither the
\* stored variables nor the overrides hold, generate_prompt raises an error
\* that is not marked recoverable and execute ends with that error, the
\* model not called; an Agent with the default blocks fails so whenever
\* neither the input nor an earlier call gave the variable input.
C15_MissingVariableIsFatal ==
    /\ [][(pc = "rendering" /\ (isManager => LatestAdded(GetAction(input_data)[1])
                                                \in DOMAIN BuiltinBlock)
              /\ MissingVariable(prompt_blocks, prompt_variables, RenderFilter))
            => /\ pc' = "idle"
               /\ outcome'.kind = "raise"
               /\ outcome'.type = "KeyError"
               /\ ~outcome'.recoverable
               /\ llm_log' = <<>>]_vars
    /\ []((outcome.kind = "raise" /\ outcome.type = "KeyError")
            => ~outcome.recoverable /\ llm_log = <<>> /\ llm_out = NoLLMAnswer)
    /\ []((~isManager /\ pc = "awaiting"
              /\ \E i \in 1..Len(prompt_blocks) :
                    prompt_blocks[i] = [content |-> <<"User request:", "SP", "{input}">>,
                                        name |-> "request"])
            => "input" \in DOMAIN vars_before \cup DOMAIN input_data)

C15_Witness ==
    /\ ~isManager
    /\ pc = "idle"
    /\ prompt_blocks = InitPromptBlocks
    /\ "input" \notin DOMAIN vars_before \cup DOMAIN input_data
    /\ input_data = Dict1("task", Task)
    /\ outcome.kind = "raise"
    /\ outcome.type = "KeyError"
    /\ llm_log = <<>>

\* C16: generate_prompt substitutes the stored variables merged with the
\* overrides of the call, an override winning over a stored value of the
\* same name; the merge is made on a copy, so the call leaves the stored
\* variables and the blocks as they were.
C16_OverridesOnACopy ==
    gen_call.op = "generate_prompt"
        => /\ gen_call.variables_after = gen_call.variables
           /\ gen_call.blocks_after = gen_call.blocks
           /\ LET merged == [k \in DOMAIN gen_call.variables \cup DOMAIN gen_call.kwargs |->
                                IF k \in DOMAIN gen_call.kwargs
                                THEN gen_call.kwargs[k]
                                ELSE gen_call.variables[k]]
              IN  gen_ret = GeneratePrompt(gen_call.blocks, merged,
                                           gen_call.block_names, EmptyDict)

C16_Witness ==
    /\ gen_call.op = "generate_prompt"
    /\ gen_call.kwargs = Dict1("input", <<"override">>)
    /\ "input" \in DOMAIN gen_call.variables
    /\ gen_call.variables["input"] = Query
    /\ prompt_variables["input"] = Query
    /\ gen_ret.kind = "return"
    /\ Contains(gen_ret.value, "override")
    /\ ~Contains(gen_ret.value, "find")

\* the positions where a line of the text begins with the marker "Answer:"
AnswerLines(text) ==
    {i \in 1..Len(text) : text[i] = "Answer:" /\ (i = 1 \/ text[i - 1] = "NL")}

\* C18 as stated: _extract_final_answer never raises; for a text with a line
\* that begins with "Answer:" it returns what follows that marker, trimmed,
\* and for a text with no such line it returns the empty text.
C18_AnswerLine ==
    answer_ret # NoRet
        => /\ answer_ret.kind = "return"
           /\ IF AnswerLines(parse_text) = {}
              THEN answer_ret.value = <<>>
              ELSE LET i == CHOOSE x \in AnswerLines(parse_text) :
                                \A y \in AnswerLines(parse_text) : x <= y
                   IN  answer_ret.value = Strip(SubSeq(parse_text, i + 1, Len(parse_text)))

\* what instance i holds, read through its attributes
View(i) ==
    [variables |-> Deref(heap, inst[i].variables),
     blocks |-> Deref(heap, inst[i].blocks),
     actions |-> IF inst[i].manager THEN Deref(heap, inst[i].actions) ELSE <<>>,
     steps |-> Deref(heap, inst[i].steps),
     depends |-> Deref(heap, inst[i].depends)]

\* the objects instance i refers to
ObjectsOf(i) ==
    {inst[i].blocks, inst[i].variables, inst[i].steps, inst[i].depends}
        \cup (IF inst[i].manager THEN {inst[i].actions} ELSE {})

\* C19: two separately constructed instances share no mutable state: they
\* refer to no common object, and an add_block, set_prompt_variable,
\* add_action or execute on one of them leaves the blocks, the variables,
\* the steps, the dependency chain and the action table of the other as
\* they were.
C19_NoSharedState ==
    /\ [](ObjectsOf(1) \cap ObjectsOf(2) = {})
    /\ [][\A j \in Instances :
            (hlog' # hlog /\ hlog'[Len(hlog')] # j) => View(j)' = View(j)]_vars

C19_Witness ==
    /\ hlog = <<1, 1, 1>>
    /\ View(1).blocks # InitPromptBlocks
    /\ "input" \in DOMAIN View(1).variables
    /\ View(1).depends = <<LLMDependency>>
    /\ View(2) = [variables |-> InitPromptVariables(<<>>),
                  blocks |-> InitPromptBlocks,
                  actions |-> InitActions, steps |-> <<>>, depends |-> <<>>]

\* C20: a result that execute returned stays as it was returned: after any
\* later add_block, set_prompt_variable, add_action or execute, on the same
\* instance or on another, its content and the steps it refers to are the
\* ones it had at the return.
C20_ResultImmutable ==
    \A k \in 1..Len(results) :
        /\ Deref(heap, results[k].addr).content = results[k].content
        /\ Deref(heap, Deref(heap, results[k].addr).intermediate_steps) = results[k].steps

C20_Witness ==
    /\ Len(results) = 2
    /\ Len(hlog) = 3
    /\ results[1].inst = 2
    /\ results[2].inst = 2
    /\ results[1].content = [action |-> "plan", result |-> AnswerText]
    /\ results[2].content = [action |-> "review", result |-> <<"A">>]
    /\ Deref(heap, results[1].addr).content = results[1].content
    /\ Deref(heap, results[1].addr).intermediate_steps # inst[2].steps

\* C21 as stated: the dependency chain names a collaborator only after a
\* call of it that succeeded: a successful _run_llm leaves the chain [model]
\* and returns the content, a successful _run_tool leaves the chain [that
\* tool] and returns the payload, and a call that raises or reports a status
\* other than success leaves the chain as it was before the call.
C21_ChainOnlyOnSuccess ==
    /\ (pc = "idle" /\ Len(llm_log) = 1)
          => IF ModelSucceeded
             THEN /\ run_depends = <<LLMDependency>>
                  /\ outcome.kind = "return"
                  /\ ResultText(outcome.value) = llm_out.content
             ELSE run_depends = llm_log[1].run_depends
    /\ tool_call.op = "_run_tool"
          => IF ~tool_call.out.raised /\ tool_call.out.status = "success"
             THEN /\ run_depends = <<NodeDependency(tool_call.tool.name, tool_call.tool.id)>>
                  /\ tool_ret = Return(tool_call.out.content)
             ELSE run_depends = tool_call.before

\* C22: with streaming enabled the LLM node reads every chunk of the
\* response, with one stream callback per chunk in the order of arrival, and
\* builds one response from all the chunks once the last one is read; the
\* content it returns is the content of that response, never one built from
\* a proper prefix of the chunks.
C22_SingleCompletionPoint ==
    stream.streaming
        => /\ Len(stream.chunks) + Len(stream.rest) = Len(stream.response)
           /\ Len(stream.callbacks) = Len(stream.chunks)
           /\ \A i \in 1..Len(stream.callbacks) :
                 /\ stream.callbacks[i] = [content |-> stream.response[i].content]
                 /\ stream.chunks[i] = stream.response[i]
           /\ stream.ret.kind = "return"
                 => /\ stream.rest = <<>>
                    /\ Len(stream.callbacks) = Len(stream.response)
                    /\ stream.ret.value.content = JoinContents(stream.response)

C22_Witness ==
    /\ stream.streaming
    /\ stream.ret.kind = "return"
    /\ stream.response = <<Chunk(<<"a">>), Chunk(<<"b">>), Chunk(<<>>)>>
    /\ stream.callbacks = <<[content |-> <<"a">>], [content |-> <<"b">>], [content |-> <<>>]>>
    /\ stream.ret.value.content = <<"a", "b">>

BlockNames(blocks) == {blocks[i].name : i \in 1..Len(blocks)}

\* the step ends the running execute
ExecuteEnds == pc # "idle" /\ pc' = "idle"

\* C24 as stated: no step removes a prompt variable or a prompt block, and
\* when an execute ends, with a result or with an error, the stored
\* variables are the ones stored before the call overridden by its input.
C24_AlwaysMerged ==
    /\ [][/\ DOMAIN prompt_variables \subseteq DOMAIN prompt_variables'
          /\ BlockNames(prompt_blocks) \subseteq BlockNames(prompt_blocks')]_vars
    /\ [][ExecuteEnds
            => prompt_variables' =
                 [k \in DOMAIN vars_before \cup DOMAIN input_data |->
                     IF k \in DOMAIN input_data THEN input_data[k] ELSE vars_before[k]]]_vars

\* C24 amended: no step removes a prompt variable or a prompt block, and the
\* reset leaves both as they are; when an execute ends, with a result or
\* with an error, the stored variables are the ones stored before the call
\* overridden by its input, except when AgentManager.execute rejects the
\* action: then nothing of the input is stored.
C24_MergedUnlessRejected ==
    /\ [][/\ DOMAIN prompt_variables \subseteq DOMAIN prompt_variables'
          /\ BlockNames(prompt_blocks) \subseteq BlockNames(prompt_blocks')]_vars
    /\ [][(pc = "idle" /\ pc' = "started")
            => prompt_variables' = prompt_variables /\ prompt_blocks' = prompt_blocks]_vars
    /\ [][ExecuteEnds
            => prompt_variables' =
                 IF outcome'.kind = "raise" /\ outcome'.type = "InvalidActionException"
                 THEN vars_before
                 ELSE [k \in DOMAIN vars_before \cup DOMAIN input_data |->
                          IF k \in DOMAIN input_data THEN input_data[k]
                          ELSE vars_before[k]]]_vars

C24_Witness ==
    /\ ~isManager
    /\ pc = "idle"
    /\ execs = 2
    /\ ops = 0
    /\ input_data = Dict1("task", Task)
    /\ "input" \in DOMAIN vars_before
    /\ prompt_variables = [input |-> vars_before["input"],
                           tool_description |-> ToolDescription(tools), user_input |-> <<>>,
                           task |-> Task]
    /\ outcome.kind = "return"

\* C25: when AgentManager.execute raises InvalidActionException it has
\* called no model and stored nothing of its input: the variables, the
\* blocks and the action table are as they were before the call, and the
\* steps and the dependency chain are empty.
C25_RejectedCallOnlyResets ==
    /\ [][(isManager /\ pc = "idle" /\ pc' = "started")
            => /\ prompt_variables' = prompt_variables
               /\ prompt_blocks' = prompt_blocks
               /\ actions' = actions]_vars
    /\ [][(ExecuteEnds /\ outcome'.kind = "raise"
              /\ outcome'.type = "InvalidActionException")
            => /\ pc = "started"
               /\ llm_log' = <<>>
               /\ llm_out' = NoLLMAnswer
               /\ prompt_variables' = vars_before
               /\ prompt_variables' = prompt_variables
               /\ prompt_blocks' = prompt_blocks
               /\ actions' = actions
               /\ intermediate_steps' = <<>>
               /\ run_depends' = <<>>]_vars

C25_Witness ==
    /\ isManager
    /\ pc = "idle"
    /\ execs = 2
    /\ dirty
    /\ input_data = Dict1("task", Task)
    /\ outcome.kind = "raise"
    /\ outcome.type = "InvalidActionException"
    /\ "task" \notin DOMAIN prompt_variables
    /\ prompt_variables = vars_before
    /\ run_depends = <<>>
    /\ llm_log = <<>>

====
